---- MODULE Spec2Model ----
\* A model of the grep worker task `command` (src/src/tasks.py): the per-input
\* loop, the disk-image mount lifecycle, the polling supervisor of the search
\* child process, the per-input error boundary and the cleanup in `finally`.
EXTENDS Integers, Sequences, FiniteSets, TLC

\* ---------------------------------------------------------------- bounds
MaxInputs == 2        \* longest input file list explored
MaxMountpoints == 1   \* most mountpoints one mount() returns
MaxLines == 2         \* most lines a child writes to its output file
MaxElapsed == 5       \* seconds after which no further loop body is entered
MaxDelay == 1         \* most time, in each of DelayUnits, a polling loop
                      \* takes on top of its sleeps

\* ------------------------------------------------------ program constants
\* line 126
update_interval_s == 3
\* line 130: a timedelta counts whole microseconds; total_seconds() (line 132)
\* is that count divided by 10^6
MicrosPerSecond == 1000000

\* The time a polling loop has taken on top of its sleeps when the clock is
\* read at line 130 (Popen, poll(), count_file_lines, send_event, the overrun
\* of the sleeps): up to MaxDelay times a few microseconds, a millisecond or
\* a second.
DelayUnits == {5, 1000, MicrosPerSecond}
Delays == {k * u : k \in 0..MaxDelay, u \in DelayUnits}

VARIABLES
    inputs,              \* get_input_files(...): sequence of [disk: BOOLEAN]
    mount_disk_images,   \* task_config.get("mount_disk_images", False)
    has_regex,           \* whether task_config holds "regex"
    pc,                  \* position of the task in `command`
    idx,                 \* index of the input file the for-loop is at
    base_command,        \* the list base_command
    base_command_string, \* base_command_string
    command,             \* the argv handed to Popen
    disks_mounted,       \* the list disks_mounted (input indices of the handles)
    output_files,        \* the list output_files
    pending,             \* exception in flight while `finally` runs
    fin,                 \* position of the for-loop inside `finally`
    dev,                 \* per input: state of its BlockDevice
    mps,                 \* per input: number of mountpoints mount() returned
    child,               \* per input: state of its search process
    lines,               \* lines in the output file while it is sampled
    grep_matches,        \* the count of line 129 until its event is sent
                         \* (it is not read again after that), 0 otherwise
    argv,                \* per input: the argv its child was spawned with
    elapsed,             \* microseconds from start_time to the last clock
                         \* reading or the end of the last sleep
    slept,               \* sleeps of the current polling loop
    last_event,          \* the task-progress event sent at this tick
    \* ---- observation (history) variables
    umount_calls,        \* per input: umount() invocations on its handle
    created,             \* per input: create_output_file invocations
    visits,              \* per input: loop iterations started for it
    outcome,             \* per input: how its iteration ended
    observed,            \* poll() has returned the current child's exit status
    late_events,         \* events sent in this loop after the child exited
    iter_base,           \* base_command when the current iteration began
    iter_disks,          \* disks_mounted when the current iteration began
    exit_cause           \* what made the task raise, "none" otherwise

vars == <<inputs, mount_disk_images, has_regex, pc, idx, base_command,
          base_command_string, command, disks_mounted, output_files, pending,
          fin, dev, mps, child, lines, grep_matches, argv, elapsed, slept, last_event,
          umount_calls, created, visits, outcome, observed, late_events,
          iter_base, iter_disks, exit_cause>>

Slots == 1..MaxInputs

\* ------------------------------------------------------------ argv tokens
Tok(kind, inp, part) == [kind |-> kind, inp |-> inp, part |-> part]
Grep == Tok("grep", 0, 0)
Flags == Tok("-aEi", 0, 0)
Regex == Tok("regex", 0, 0)
Recursive == Tok("-R", 0, 0)
\* input_file.get("path") of input i
PathOf(i) == Tok("path", i, 0)
\* f"{mountpoint}/" for mountpoint k of the device of input i
MountRoot(i, k) == Tok("mountpoint/", i, k)
\* input_file.get("display_name") of input i, and with ".grep" appended
DisplayName(i) == <<"display_name", i>>
OutputName(i) == <<"display_name", i, ".grep">>

\* the roots appended for the n mountpoints bd.mount() returned for input i
Roots(i, n) == [k \in 1..n |-> MountRoot(i, k)]

\* " ".join(words): the words in order, separated by single spaces
Space == Tok(" ", 0, 0)
Join(words) ==
    [p \in 1..(IF Len(words) = 0 THEN 0 ELSE 2 * Len(words) - 1) |->
        IF p % 2 = 1 THEN words[(p + 1) \div 2] ELSE Space]

NoEvent == [inp |-> 0, matches |-> 0, elapsed |-> 0, rate |-> 0,
            running |-> TRUE, observed |-> FALSE]

InputLists == UNION {[1..n -> [disk : BOOLEAN]] : n \in 0..MaxInputs}

Init ==
    /\ inputs \in InputLists
    /\ mount_disk_images \in BOOLEAN
    /\ has_regex \in BOOLEAN
    /\ pc = "start"
    /\ idx = 0
    /\ base_command = <<>>
    /\ base_command_string = <<>>
    /\ command = <<>>
    /\ disks_mounted = <<>>
    /\ output_files = <<>>
    /\ pending = "none"
    /\ fin = 0
    /\ dev = [i \in Slots |-> "none"]
    /\ mps = [i \in Slots |-> 0]
    /\ child = [i \in Slots |-> "none"]
    /\ lines = 0
    /\ grep_matches = 0
    /\ argv = [i \in Slots |-> <<>>]
    /\ elapsed = 0
    /\ slept = 0
    /\ last_event = NoEvent
    /\ umount_calls = [i \in Slots |-> 0]
    /\ created = [i \in Slots |-> 0]
    /\ visits = [i \in Slots |-> 0]
    /\ outcome = [i \in Slots |-> "pending"]
    /\ observed = FALSE
    /\ late_events = 0
    /\ iter_base = <<>>
    /\ iter_disks = <<>>
    /\ exit_cause = "none"

\* ------------------------------------------------------- exception model
\* What each collaborator raises when it fails.  BlockDevice.setup/mount
\* raise RuntimeError or an exception of another class (an OSError of a tool
\* they run); Popen raises OSError for a missing or unexecutable binary;
\* count_file_lines and send_event may raise either kind.
MountErrors == {"RuntimeError", "OtherError"}
SpawnErrors == {"OSError"}
PollingErrors == {"RuntimeError", "OtherError"}

\* Mutant: the handler catches nothing.
CaughtNothing(cls) == FALSE

\* `except RuntimeError as e:` (lines 143-144): the classes the handler catches
Caught(cls) == cls = "RuntimeError"

\* An exception of class cls leaves the try body of the current iteration
\* because of `cause`: the handler logs it when it catches it, otherwise it
\* stays in flight while `finally` runs.
Raise(cause, cls) ==
    /\ pc' = "finally"
    /\ fin' = 1
    /\ pending' = IF Caught(cls) THEN "none" ELSE cause
    /\ outcome' = [outcome EXCEPT ![idx] = cause]

\* ---------------------------------------------------------- preparation
\* line 97: base_command = ["grep", "-aEi", task_config.get("regex")]
BaseCommand == <<Grep, Flags, Regex>>

\* Mutant: the join accepts a missing regex.
JoinNeverFails == FALSE

\* line 98: " ".join raises TypeError when task_config.get("regex") is None
JoinFails == ~has_regex

\* lines 95-100: input files, base command and its string form
Start ==
    /\ pc = "start"
    /\ ~JoinFails
    /\ base_command' = BaseCommand
    /\ base_command_string' = Join(BaseCommand)
    /\ pc' = "loop"
    /\ UNCHANGED <<inputs, mount_disk_images, has_regex, idx, command,
                   disks_mounted, output_files, pending, fin, dev, mps, child,
                   lines, grep_matches, argv, elapsed, slept, last_event,
                   umount_calls, created, visits, outcome, observed,
                   late_events, iter_base, iter_disks, exit_cause>>

\* line 98 with task_config.get("regex") = None: " ".join raises TypeError
StartNoRegex ==
    /\ pc = "start"
    /\ JoinFails
    /\ pc' = "raised"
    /\ exit_cause' = "config"
    /\ UNCHANGED <<inputs, mount_disk_images, has_regex, idx, base_command,
                   base_command_string, command, disks_mounted, output_files,
                   pending, fin, dev, mps, child, lines, grep_matches, argv,
                   elapsed, slept, last_event, umount_calls, created, visits,
                   outcome, observed, late_events, iter_base, iter_disks>>

\* line 103: the for-loop takes the next input file
NextInput ==
    /\ pc = "loop"
    /\ idx < Len(inputs)
    /\ idx' = idx + 1
    /\ visits' = [visits EXCEPT ![idx + 1] = @ + 1]
    /\ iter_base' = base_command
    /\ iter_disks' = disks_mounted
    /\ pc' = "try"
    /\ UNCHANGED <<inputs, mount_disk_images, has_regex, base_command,
                   base_command_string, command, disks_mounted, output_files,
                   pending, fin, dev, mps, child, lines, grep_matches, argv,
                   elapsed, slept, last_event, umount_calls, created, outcome,
                   observed, late_events, exit_cause>>

\* Mutant: every disk image is mounted, whatever the configuration says.
WantsMountAnyDisk(i) == inputs[i].disk

\* line 106: mount_disk_images and is_disk_image(input_file)
WantsMount(i) == mount_disk_images /\ inputs[i].disk

\* line 116: command = base_command + [input_file.get("path")]
PlainCommand(base, i) == Append(base, PathOf(i))

\* line 116: a plain file is searched by its path
ChoosePlain ==
    /\ pc = "try"
    /\ ~WantsMount(idx)
    /\ command' = PlainCommand(base_command, idx)
    /\ pc' = "create"
    /\ UNCHANGED <<inputs, mount_disk_images, has_regex, idx, base_command,
                   base_command_string, disks_mounted, output_files, pending,
                   fin, dev, mps, child, lines, grep_matches, argv, elapsed,
                   slept, last_event, umount_calls, created, visits, outcome,
                   observed, late_events, iter_base, iter_disks, exit_cause>>

\* lines 107-108: bd = BlockDevice(...); bd.setup() returns
Setup ==
    /\ pc = "try"
    /\ WantsMount(idx)
    /\ dev' = [dev EXCEPT ![idx] = "setup"]
    /\ pc' = "mount"
    /\ UNCHANGED <<inputs, mount_disk_images, has_regex, idx, base_command,
                   base_command_string, command, disks_mounted, output_files,
                   pending, fin, mps, child, lines, grep_matches, argv,
                   elapsed, slept, last_event, umount_calls, created, visits,
                   outcome, observed, late_events, iter_base, iter_disks,
                   exit_cause>>

\* line 108: bd.setup() raises
SetupFails ==
    /\ pc = "try"
    /\ WantsMount(idx)
    /\ \E cls \in MountErrors : Raise("setup_failed", cls)
    /\ UNCHANGED <<inputs, mount_disk_images, has_regex, idx, base_command,
                   base_command_string, command, disks_mounted, output_files,
                   dev, mps, child, lines, grep_matches, argv, elapsed, slept,
                   last_event, umount_calls, created, visits, observed,
                   late_events, iter_base, iter_disks, exit_cause>>

\* lines 111-113: base_command.append("-R") and one root per mountpoint
MountedCommand(base, i, n) == Append(base, Recursive) \o Roots(i, n)

\* line 110: disks_mounted.append(bd)
Track(disks, i) == Append(disks, i)

\* lines 109-114: mount() returns n mountpoints; the handle is tracked, the
\* shared list base_command grows and command is that same list
Mount ==
    /\ pc = "mount"
    /\ \E n \in 1..MaxMountpoints :
        /\ mps' = [mps EXCEPT ![idx] = n]
        /\ base_command' = MountedCommand(base_command, idx, n)
        /\ command' = MountedCommand(base_command, idx, n)
    /\ dev' = [dev EXCEPT ![idx] = "mounted"]
    /\ disks_mounted' = Track(disks_mounted, idx)
    /\ pc' = "create"
    /\ UNCHANGED <<inputs, mount_disk_images, has_regex, idx,
                   base_command_string, output_files, pending, fin, child,
                   lines, grep_matches, argv, elapsed, slept, last_event,
                   umount_calls, created, visits, outcome, observed,
                   late_events, iter_base, iter_disks, exit_cause>>

\* line 109: bd.mount() raises; the handle is not tracked yet
MountFails ==
    /\ pc = "mount"
    /\ \E cls \in MountErrors : Raise("mount_failed", cls)
    /\ UNCHANGED <<inputs, mount_disk_images, has_regex, idx, base_command,
                   base_command_string, command, disks_mounted, output_files,
                   dev, mps, child, lines, grep_matches, argv, elapsed, slept,
                   last_event, umount_calls, created, visits, observed,
                   late_events, iter_base, iter_disks, exit_cause>>

\* Mutant: the factory is called a second time for the same input.
AllocatedTwice(made, i) == [made EXCEPT ![i] = @ + 2]

\* lines 118-121: one call of create_output_file for input i
Allocated(made, i) == [made EXCEPT ![i] = @ + 1]

\* lines 118-121: create_output_file(output_path, display_name=...)
CreateOutput ==
    /\ pc = "create"
    /\ created' = Allocated(created, idx)
    /\ pc' = "spawn"
    /\ UNCHANGED <<inputs, mount_disk_images, has_regex, idx, base_command,
                   base_command_string, command, disks_mounted, output_files,
                   pending, fin, dev, mps, child, lines, grep_matches, argv,
                   elapsed, slept, last_event, umount_calls, visits, outcome,
                   observed, late_events, iter_base, iter_disks, exit_cause>>

\* ------------------------------------------------ the progress supervisor
\* lines 123-126: open(output_file.path, "w") truncates the file, Popen starts
\* the child with `command` as argv, start_time = now()
Spawn ==
    /\ pc = "spawn"
    /\ child' = [child EXCEPT ![idx] = "running"]
    /\ lines' = 0
    /\ grep_matches' = 0
    /\ argv' = [argv EXCEPT ![idx] = command]
    /\ elapsed' = 0
    /\ slept' = 0
    /\ observed' = FALSE
    /\ late_events' = 0
    /\ pc' = "poll"
    /\ UNCHANGED <<inputs, mount_disk_images, has_regex, idx, base_command,
                   base_command_string, command, disks_mounted, output_files,
                   pending, fin, dev, mps, last_event, umount_calls, created,
                   visits, outcome, iter_base, iter_disks, exit_cause>>

\* line 124: Popen raises (missing or unexecutable binary)
SpawnFails ==
    /\ pc = "spawn"
    /\ \E cls \in SpawnErrors : Raise("spawn_failed", cls)
    /\ UNCHANGED <<inputs, mount_disk_images, has_regex, idx, base_command,
                   base_command_string, command, disks_mounted, output_files,
                   dev, mps, child, lines, grep_matches, argv, elapsed, slept,
                   last_event, umount_calls, created, visits, observed,
                   late_events, iter_base, iter_disks, exit_cause>>

\* Mutant: the loop tests the exit status without polling for it.
NeverReaped(i) == child[i] # "none"

\* Mutant: the loop does not wait for the child.
NeverWaits(i) == FALSE

\* line 128: process.poll() is None
StillRunning(i) == child[i] = "running"

\* The clock is bounded: a child outlives a poll only while the polling
\* loop is younger than MaxElapsed seconds.
TimeLeft == elapsed < MaxElapsed * MicrosPerSecond

\* line 128: the loop condition holds, the body is entered
PollRunning ==
    /\ pc = "poll"
    /\ StillRunning(idx)
    /\ TimeLeft
    /\ pc' = "tick"
    /\ UNCHANGED <<inputs, mount_disk_images, has_regex, idx, base_command,
                   base_command_string, command, disks_mounted, output_files,
                   pending, fin, dev, mps, child, lines, grep_matches, argv,
                   elapsed, slept, last_event, umount_calls, created, visits,
                   outcome, observed, late_events, iter_base, iter_disks,
                   exit_cause>>

\* line 128: poll() returns the exit status; the loop and the with block end
PollExited ==
    /\ pc = "poll"
    /\ ~StillRunning(idx)
    /\ observed' = TRUE
    /\ late_events' = 0
    /\ lines' = 0
    /\ grep_matches' = 0
    /\ elapsed' = 0
    /\ slept' = 0
    /\ pc' = "append"
    /\ UNCHANGED <<inputs, mount_disk_images, has_regex, idx, base_command,
                   base_command_string, command, disks_mounted, output_files,
                   pending, fin, dev, mps, child, argv, last_event,
                   umount_calls, created, visits, outcome, iter_base,
                   iter_disks, exit_cause>>

\* Mutant: the quotient is rounded up instead of truncated.
RateRoundedUp(matches, micros) ==
    IF micros > 0
    THEN (matches * MicrosPerSecond + micros - 1) \div micros
    ELSE 0

\* line 132: the division is one of doubles.  total_seconds() rounds
\* micros / 10^6 to a double, the quotient is rounded again, and int() then
\* truncates.  For the quotients reached here (matches <= 4) the result is
\* below the exact quotient only when that is a whole number and the double
\* quotient falls just short of it: matches a power of two and micros five
\* times a power of two (1 / 0.000005 is 199999.99999999997).
Undershoots(matches, micros) ==
    /\ (matches * MicrosPerSecond) % micros = 0
    /\ \E a \in 0..2 : matches = 2 ^ a
    /\ \E j \in 0..8 : micros = 5 * 2 ^ j

\* lines 131-135: int(grep_matches / duration.total_seconds()) if
\* duration.total_seconds() > 0 else 0, for a duration of `micros`
\* microseconds
Rate(matches, micros) ==
    IF micros > 0
    THEN (matches * MicrosPerSecond) \div micros
         - (IF Undershoots(matches, micros) THEN 1 ELSE 0)
    ELSE 0

\* lines 130-139: the data of the task-progress event for input i when the
\* clock reading of line 130 is `micros` after start_time, with what was true
\* of its child when it was sent
Event(i, micros) ==
    [inp |-> i, matches |-> grep_matches, elapsed |-> micros,
     rate |-> Rate(grep_matches, micros),
     running |-> child[i] = "running", observed |-> observed]

\* what the polling loop has taken so far on top of its sleeps
Overrun == elapsed - slept * update_interval_s * MicrosPerSecond

\* line 129: grep_matches = count_file_lines(output_file.path)
Count ==
    /\ pc = "tick"
    /\ grep_matches' = lines
    /\ pc' = "send"
    /\ UNCHANGED <<inputs, mount_disk_images, has_regex, idx, base_command,
                   base_command_string, command, disks_mounted, output_files,
                   pending, fin, dev, mps, child, lines, argv, elapsed, slept,
                   last_event, umount_calls, created, visits, outcome,
                   observed, late_events, iter_base, iter_disks, exit_cause>>

\* lines 130-139: the clock is read, the rate computed and
\* self.send_event("task-progress", ...) called
Emit ==
    /\ pc = "send"
    /\ \E d \in Delays :
        /\ Overrun + d \in Delays
        /\ elapsed' = elapsed + d
        /\ last_event' = Event(idx, elapsed + d)
    /\ grep_matches' = 0
    /\ late_events' = IF child[idx] = "running" THEN late_events
                      ELSE late_events + 1
    /\ pc' = "sleep"
    /\ UNCHANGED <<inputs, mount_disk_images, has_regex, idx, base_command,
                   base_command_string, command, disks_mounted, output_files,
                   pending, fin, dev, mps, child, lines, argv, slept,
                   umount_calls, created, visits, outcome, observed,
                   iter_base, iter_disks, exit_cause>>

\* line 129 or lines 136-139: count_file_lines or send_event raises
PollingFails ==
    /\ pc \in {"tick", "send"}
    /\ \E cls \in PollingErrors : Raise("polling_failed", cls)
    /\ late_events' = 0
    /\ lines' = 0
    /\ grep_matches' = 0
    /\ elapsed' = 0
    /\ slept' = 0
    /\ UNCHANGED <<inputs, mount_disk_images, has_regex, idx, base_command,
                   base_command_string, command, disks_mounted, output_files,
                   dev, mps, child, argv, last_event, umount_calls, created,
                   visits, observed, iter_base, iter_disks, exit_cause>>

\* line 140: time.sleep(update_interval_s) returns after the interval (what it
\* sleeps longer is part of the delay before the next clock reading)
Sleep ==
    /\ pc = "sleep"
    /\ elapsed' = elapsed + update_interval_s * MicrosPerSecond
    /\ slept' = slept + 1
    /\ last_event' = NoEvent
    /\ pc' = "poll"
    /\ UNCHANGED <<inputs, mount_disk_images, has_regex, idx, base_command,
                   base_command_string, command, disks_mounted, output_files,
                   pending, fin, dev, mps, child, lines, grep_matches, argv,
                   umount_calls, created, visits, outcome, observed,
                   late_events, iter_base, iter_disks, exit_cause>>

\* Mutant: the new entry is put in front of the list.
CollectInFront(outs, i) ==
    <<[inp |-> i, display_name |-> OutputName(i)]>> \o outs

\* line 142: output_files.append(output_file.to_dict())
Collect(outs, i) == Append(outs, [inp |-> i, display_name |-> OutputName(i)])

\* line 142, then the try body ends normally and `finally` begins
AppendOutput ==
    /\ pc = "append"
    /\ output_files' = Collect(output_files, idx)
    /\ outcome' = [outcome EXCEPT ![idx] = "ok"]
    /\ pending' = "none"
    /\ fin' = 1
    /\ pc' = "finally"
    /\ UNCHANGED <<inputs, mount_disk_images, has_regex, idx, base_command,
                   base_command_string, command, disks_mounted, dev, mps,
                   child, lines, grep_matches, argv, elapsed, slept,
                   last_event, umount_calls, created, visits, observed,
                   late_events, iter_base, iter_disks, exit_cause>>

\* ------------------------------------------------------------- cleanup
\* Mutant: the cleanup follows the try statement instead of being its
\* `finally`, so an exception in flight skips it.
TrackedUnlessRaising == IF pending = "none" THEN disks_mounted ELSE <<>>

\* line 146: the handles the loop in `finally` walks through
Tracked == disks_mounted

\* line 149: blockdevice.umount() returns
Umount ==
    /\ pc = "finally"
    /\ fin <= Len(Tracked)
    /\ dev' = [dev EXCEPT ![Tracked[fin]] = "unmounted"]
    /\ umount_calls' = [umount_calls EXCEPT ![Tracked[fin]] = @ + 1]
    /\ fin' = fin + 1
    /\ UNCHANGED <<inputs, mount_disk_images, has_regex, pc, idx,
                   base_command, base_command_string, command, disks_mounted,
                   output_files, pending, mps, child, lines, grep_matches,
                   argv, elapsed, slept, last_event, created, visits, outcome,
                   observed, late_events, iter_base, iter_disks, exit_cause>>

\* line 149: blockdevice.umount() raises; nothing in `finally` catches it, so
\* it replaces any exception in flight and leaves the task
UmountFails ==
    /\ pc = "finally"
    /\ fin <= Len(Tracked)
    /\ umount_calls' = [umount_calls EXCEPT ![Tracked[fin]] = @ + 1]
    /\ pending' = "umount_failed"
    /\ exit_cause' = "umount_failed"
    /\ pc' = "raised"
    /\ UNCHANGED <<inputs, mount_disk_images, has_regex, idx, base_command,
                   base_command_string, command, disks_mounted, output_files,
                   fin, dev, mps, child, lines, grep_matches, argv, elapsed,
                   slept, last_event, created, visits, outcome, observed,
                   late_events, iter_base, iter_disks>>

\* end of `finally` with no exception in flight: back to the for-loop
FinallyDone ==
    /\ pc = "finally"
    /\ fin > Len(Tracked)
    /\ pending = "none"
    /\ pc' = "loop"
    /\ UNCHANGED <<inputs, mount_disk_images, has_regex, idx, base_command,
                   base_command_string, command, disks_mounted, output_files,
                   pending, fin, dev, mps, child, lines, grep_matches, argv,
                   elapsed, slept, last_event, umount_calls, created, visits,
                   outcome, observed, late_events, iter_base, iter_disks,
                   exit_cause>>

\* end of `finally` with an exception in flight: it leaves the task
FinallyReraise ==
    /\ pc = "finally"
    /\ fin > Len(Tracked)
    /\ pending # "none"
    /\ exit_cause' = pending
    /\ pc' = "raised"
    /\ UNCHANGED <<inputs, mount_disk_images, has_regex, idx, base_command,
                   base_command_string, command, disks_mounted, output_files,
                   pending, fin, dev, mps, child, lines, grep_matches, argv,
                   elapsed, slept, last_event, umount_calls, created, visits,
                   outcome, observed, late_events, iter_base, iter_disks>>

\* Mutant: an empty output list is a hard failure.
AfterLoopStrict(outs) == IF outs = <<>> THEN "raised" ELSE "returned"

\* lines 151-159: an empty output list is only logged (logger.info); the
\* result is returned either way
AfterLoop(outs) == "returned"

\* Mutant: the command string is joined from base_command when the result is
\* built.
ResultCommandRejoined == Join(base_command)

\* line 157: command=base_command_string
ResultCommand == base_command_string

\* lines 151-159: the loop is exhausted, create_task_result(...) is returned
Return ==
    /\ pc = "loop"
    /\ idx >= Len(inputs)
    /\ pc' = AfterLoop(output_files)
    /\ UNCHANGED <<inputs, mount_disk_images, has_regex, idx, base_command,
                   base_command_string, command, disks_mounted, output_files,
                   pending, fin, dev, mps, child, lines, grep_matches, argv,
                   elapsed, slept, last_event, umount_calls, created, visits,
                   outcome, observed, late_events, iter_base, iter_disks,
                   exit_cause>>

\* ------------------------------------------------------ child processes
\* line 124 (stdout=fh): the child of the current input writes one more
\* matching line to the output file being sampled (a line written during the
\* sleep is first seen after it, and is written here after it)
ChildWrite ==
    /\ pc \in {"tick", "send"}
    /\ child[idx] = "running"
    /\ lines < MaxLines
    /\ lines' = lines + 1
    /\ UNCHANGED <<inputs, mount_disk_images, has_regex, pc, idx,
                   base_command, base_command_string, command, disks_mounted,
                   output_files, pending, fin, dev, mps, child, grep_matches,
                   argv, elapsed, slept, last_event, umount_calls, created,
                   visits, outcome, observed, late_events, iter_base,
                   iter_disks, exit_cause>>

\* the child of input i exits
ChildExit(i) ==
    /\ child[i] = "running"
    /\ child' = [child EXCEPT ![i] = "exited"]
    /\ UNCHANGED <<inputs, mount_disk_images, has_regex, pc, idx,
                   base_command, base_command_string, command, disks_mounted,
                   output_files, pending, fin, dev, mps, lines, grep_matches,
                   argv, elapsed, slept, last_event, umount_calls, created,
                   visits, outcome, observed, late_events, iter_base,
                   iter_disks, exit_cause>>

TaskStep ==
    \/ Start \/ StartNoRegex \/ NextInput \/ ChoosePlain
    \/ Setup \/ SetupFails \/ Mount \/ MountFails \/ CreateOutput
    \/ Spawn \/ SpawnFails \/ PollRunning \/ PollExited
    \/ Count \/ Emit \/ PollingFails \/ Sleep \/ AppendOutput
    \/ Umount \/ UmountFails \/ FinallyDone \/ FinallyReraise \/ Return

ChildStep == ChildWrite \/ \E i \in Slots : ChildExit(i)

Next == TaskStep \/ ChildStep

Spec == Init /\ [][Next]_vars

\* The task takes its next step as long as it has one, and every child
\* eventually exits.
FairSpec ==
    /\ Spec
    /\ WF_vars(TaskStep)
    /\ \A i \in Slots : WF_vars(ChildExit(i))

\* ================================================================ claims
Exited == pc \in {"returned", "raised"}
InputIds == 1..Len(inputs)

\* C1: whatever fails (the spawn, the polling, a later input), once the task
\* has returned or raised, no device whose mount() succeeded is still
\* mounted.  A failing umount() itself is the subject of C6.
C1_MountedDevicesReleased ==
    (Exited /\ exit_cause # "umount_failed") =>
        \A i \in Slots : dev[i] # "mounted"

\* C1 witness: the task raised because a spawn failed, and the device mounted
\* for that very input has been unmounted.
C1_Witness ==
    /\ pc = "raised"
    /\ exit_cause = "spawn_failed"
    /\ dev[idx] = "unmounted"

\* C2 (as claimed): umount() is invoked at most once on each handle.
C2_UnmountedExactlyOnce ==
    \A i \in Slots : umount_calls[i] <= 1

\* The entries of the inputs 1..n whose iteration ended normally, in order
RECURSIVE CompletedUpTo(_)
CompletedUpTo(n) ==
    IF n = 0 THEN <<>>
    ELSE IF outcome[n] = "ok"
         THEN Append(CompletedUpTo(n - 1),
                     [inp |-> n,
                      display_name |-> Append(DisplayName(n), ".grep")])
         ELSE CompletedUpTo(n - 1)

\* C3: the output list of the returned result is, in input order, one entry
\* for each input whose processing completed without raising, named after
\* that input with ".grep" appended; so it is no longer than the input list.
C3_OutputsAreCompletedInputsInOrder ==
    pc = "returned" =>
        /\ output_files = CompletedUpTo(Len(inputs))
        /\ Len(output_files) <= Len(inputs)

\* C3 witness: a returned result with two entries.
C3_Witness ==
    /\ pc = "returned"
    /\ Len(output_files) = 2

\* C4 (as claimed): after a spawn failure the task still returns a result,
\* having processed every input file.
C4_SpawnFailureContained ==
    (Exited /\ \E i \in Slots : outcome[i] = "spawn_failed") =>
        /\ pc = "returned"
        /\ \A j \in InputIds : visits[j] = 1

MountFailed(i) == outcome[i] \in {"setup_failed", "mount_failed"}

\* C5 (as claimed): when setup() or mount() fails for an input, that input
\* gets no search process and no output entry, the failure does not make the
\* task raise, and the iteration leaves base_command and disks_mounted, the
\* state later inputs are processed with, as it found them.
C5_MountFailureSkipsInput ==
    \A i \in Slots : MountFailed(i) =>
        /\ child[i] = "none"
        /\ \A p \in 1..Len(output_files) : output_files[p].inp # i
        /\ exit_cause \notin {"setup_failed", "mount_failed"}
        /\ (i = idx /\ pc \in {"finally", "loop"}) =>
              /\ pending = "none"
              /\ base_command = iter_base
              /\ disks_mounted = iter_disks

\* C6 (as claimed): an exception of umount() never leaves the cleanup step.
C6_UnmountFailureContained ==
    exit_cause # "umount_failed"

\* The argv an input is to be searched with
ExpectedArgv(i) ==
    IF mount_disk_images /\ inputs[i].disk
    THEN <<Grep, Flags, Regex, Recursive>> \o [k \in 1..mps[i] |-> MountRoot(i, k)]
    ELSE <<Grep, Flags, Regex, PathOf(i)>>

\* C7 (as claimed): every child is spawned with the argv of its own input.
C7_ArgvOfOwnInput ==
    \A i \in Slots : child[i] # "none" => argv[i] = ExpectedArgv(i)

\* C8 (as claimed): no event is sent for a child that has exited.
C8_NoEventAfterExit ==
    last_event.inp # 0 => last_event.running

\* C8 (amended): no event is sent for a child after poll() has returned its
\* exit status, and at most one event is sent after the child exited.
C8_NoEventAfterObservedExit ==
    /\ last_event.inp # 0 => ~last_event.observed
    /\ late_events <= 1

\* C8 witness: an event was sent for a child that had exited.
C8_Witness ==
    /\ last_event.inp # 0
    /\ ~last_event.running

\* The positions of the task inside the while loop (lines 128-140)
InLoop(p) == p \in {"poll", "tick", "send", "sleep"}

\* A collaborator raised, or the configuration made the task raise
SomethingFailed ==
    \/ exit_cause # "none"
    \/ \E i \in Slots : outcome[i] \notin {"pending", "ok"}

\* the polling loop of an input is never left while its child is running
C9_NeverEndsWhileRunning ==
    [][(InLoop(pc) /\ ~InLoop(pc')) => child[idx] = "exited"]_vars

\* once the exit status is available, the next poll ends the loop
C9_EndsOnceExited ==
    [][(pc = "poll" /\ child[idx] = "exited") => pc' \in {"poll", "append"}]_vars

\* when every child exits and no collaborator raises, the task returns, and
\* it has then visited every input file once; it raises only after a failure
C9_ReturnsIfNothingFails ==
    /\ [](pc = "returned" => \A j \in InputIds : visits[j] = 1)
    /\ [](pc = "raised" => exit_cause # "none")
    /\ <>(pc = "returned" \/ SomethingFailed)

\* C9 (as claimed): the polling loop never ends while the child is still
\* running, and ends once the child's exit status is available; so, when
\* every child eventually exits and the collaborators return, the task
\* eventually returns after visiting every input file once.
C9_LoopEndsWithChild ==
    /\ C9_NeverEndsWhileRunning
    /\ C9_EndsOnceExited
    /\ C9_ReturnsIfNothingFails

\* C10 (as claimed): every event carries rate = floor(matches / seconds) when
\* the elapsed time is positive, and rate = 0 when it is zero; the elapsed
\* time is last_event.elapsed microseconds.
C10_RateIsFloor ==
    last_event.inp # 0 =>
        /\ last_event.elapsed > 0 =>
              /\ last_event.rate * last_event.elapsed
                    <= last_event.matches * MicrosPerSecond
              /\ last_event.matches * MicrosPerSecond
                    < (last_event.rate + 1) * last_event.elapsed
        /\ last_event.elapsed = 0 => last_event.rate = 0
        /\ last_event.elapsed >= 0

\* C11: when the task configuration has no regex, the task raises before any
\* processing: no input is visited, no device is set up or mounted, no output
\* file is allocated, no search process is spawned and no event is sent.
C11_NoRegexFailsFast ==
    ~has_regex =>
        /\ pc \in {"start", "raised"}
        /\ pc = "raised" => exit_cause = "config"
        /\ \A i \in Slots :
              /\ visits[i] = 0
              /\ dev[i] = "none"
              /\ created[i] = 0
              /\ child[i] = "none"
        /\ disks_mounted = <<>>
        /\ output_files = <<>>
        /\ last_event = NoEvent

\* C11 witness: the task has raised for want of a regex, with mounting
\* enabled and a disk image first in the input list.
C11_Witness ==
    /\ ~has_regex
    /\ pc = "raised"
    /\ mount_disk_images
    /\ Len(inputs) >= 1
    /\ inputs[1].disk

\* C12: when the loop is exhausted with no output file, the task returns a
\* result with an empty output list instead of raising; the task never raises
\* without something having failed; and for an empty input list no process is
\* spawned and no device is set up or mounted.
C12_EmptyResultIsSuccess ==
    /\ [][(pc = "loop" /\ idx >= Len(inputs) /\ output_files = <<>>) =>
            (pc' \in {"loop", "returned"} /\ output_files' = <<>>)]_vars
    /\ [](pc = "raised" => exit_cause # "none")
    /\ [](Len(inputs) = 0 =>
            /\ \A i \in Slots : child[i] = "none" /\ dev[i] = "none"
            /\ has_regex => exit_cause = "none")

\* C12 witness: the task returned an empty output list after the error
\* boundary skipped both of its inputs.
C12_Witness ==
    /\ pc = "returned"
    /\ output_files = <<>>
    /\ Len(inputs) = 2
    /\ \A i \in InputIds : outcome[i] \notin {"pending", "ok"}

\* C13 (as claimed): the only child that can be running is the child of the
\* input the loop is at, so at most one child runs at a time and an input is
\* taken up only after the child of the input before it has exited.
C13_OneChildAtATime ==
    /\ \A i \in Slots : child[i] = "running" => i = idx
    /\ Cardinality({i \in Slots : child[i] = "running"}) <= 1

\* C14: with mount_disk_images disabled no device is ever set up, mounted,
\* tracked or unmounted, disk image or not, and every child is spawned with
\* the plain path of its own input.
C14_DisabledMountsNothing ==
    ~mount_disk_images =>
        /\ disks_mounted = <<>>
        /\ \A i \in Slots :
              /\ dev[i] = "none"
              /\ mps[i] = 0
              /\ umount_calls[i] = 0
              /\ child[i] # "none" => argv[i] = <<Grep, Flags, Regex, PathOf(i)>>

\* C14 witness: mounting is disabled and the searches of two disk images
\* have both been run.
C14_Witness ==
    /\ ~mount_disk_images
    /\ Len(inputs) = 2
    /\ inputs[1].disk /\ inputs[2].disk
    /\ child[1] = "exited" /\ child[2] = "exited"

\* C15: the command string of a returned result is "grep -aEi <regex>": it
\* holds the regex and is the same whatever the inputs were, however many
\* disk images were mounted and whichever inputs failed.
C15_ResultCommandIsBaseString ==
    pc = "returned" => ResultCommand = <<Grep, Space, Flags, Space, Regex>>

\* C15 witness: a result returned after a disk image grew base_command and
\* another input failed.
C15_Witness ==
    /\ pc = "returned"
    /\ Len(base_command) > Len(BaseCommand)
    /\ \E i \in InputIds : outcome[i] \notin {"pending", "ok"}

\* C16 (as claimed): in a returned task the output file factory was invoked
\* exactly once for every input of the list.
C16_OneOutputPerInput ==
    pc = "returned" => \A i \in InputIds : created[i] = 1

\* C16 (amended): the factory is invoked at most once per input; never for an
\* input whose setup() or mount() failed; exactly once for every input that
\* got a search process; and in a returned task exactly once for every input
\* whose setup() and mount() did not fail.
C16_OneOutputPerPreparedInput ==
    \A i \in Slots :
        /\ created[i] <= 1
        /\ MountFailed(i) => created[i] = 0
        /\ child[i] # "none" => created[i] = 1
        /\ (pc = "returned" /\ i \in InputIds) =>
              created[i] = (IF MountFailed(i) THEN 0 ELSE 1)

\* C16 witness: a returned task whose first input failed to mount and whose
\* second input got its output file.
C16_Witness ==
    /\ pc = "returned"
    /\ Len(inputs) = 2
    /\ MountFailed(1) /\ created[1] = 0
    /\ created[2] = 1 /\ child[2] = "exited"

\* C17 (as claimed): while a search process runs, every mountpoint root in
\* its argv belongs to a device that is mounted.
C17_RootsOfRunningChildMounted ==
    \A i \in Slots : child[i] = "running" =>
        \A p \in 1..Len(argv[i]) :
            argv[i][p].kind = "mountpoint/" => dev[argv[i][p].inp] = "mounted"

\* C18 (as claimed): once the task has returned or raised, umount() has been
\* invoked on every device whose setup() succeeded and whose mount() failed.
C18_SetupDeviceReleased ==
    Exited => \A i \in Slots :
        (outcome[i] = "mount_failed" /\ dev[i] = "setup") => umount_calls[i] >= 1

====
